---- MODULE Spec2Model ----
(***************************************************************************)
(* Task lifecycle and event delivery of src/api.py: the process-wide task  *)
(* map active_tasks, the background runner run_analysis_task, the status   *)
(* writer update_task_status, the cancellation handler cancel_task, the    *)
(* submission handler start_analysis and the per-listener stream           *)
(* task_events.event_generator.                                            *)
(*                                                                         *)
(* Atomicity follows asyncio: a coroutine gives up the event loop only at  *)
(* an await that really suspends.  Putting on an unbounded asyncio.Queue   *)
(* never suspends, so update_task_status and cancel_task run in one step;  *)
(* the runner suspends at its two sleeps and at the job body; the stream   *)
(* suspends at every yield, at is_disconnected and at the bounded wait.    *)
(***************************************************************************)
EXTENDS Integers, Sequences, FiniteSets, TLC

\* ---------------------------------------------------------------- bounds
MaxTasks == 2           \* task identifiers
MaxListeners == 2       \* event streams
MaxLoad == 3            \* tasks plus event streams
MaxDisturbances == 1    \* cancellations, disconnections, rejected requests,
                        \* status lookups and keep-alive pings of a task
                        \* still running

TaskIds == 1..MaxTasks
AnyIds == 0..MaxTasks   \* identifiers a request may name; 0 is never issued
Listeners == 1..MaxListeners

\* ------------------------------------------------------------- catalogs
\* llm/models.py: model names of AVAILABLE_MODELS
LLM_NAME_ORDER == <<"gpt-4o", "gpt-4.5-preview">>
\* utils/analysts.py is not part of the sources at hand: a one-entry catalog
ANALYST_ID_ORDER == <<"analyst_x">>

SeqToSet(s) == {s[i] : i \in 1..Len(s)}

\* submissions tried: tickers, analysts and model name of AnalysisRequest
Request(tickers, analysts, model_name) ==
    [tickers |-> tickers, analysts |-> analysts, model_name |-> model_name]
Requests ==
    { Request(<<"AAA">>, <<"analyst_x">>, "gpt-4o"),
      Request(<<"AAA">>, <<>>, "gpt-4.5-preview"),
      Request(<<>>, <<"analyst_x">>, "gpt-4o"),
      Request(<<"AAA">>, <<"analyst_x", "doesnotexist">>, "gpt-4o"),
      Request(<<"AAA">>, <<"analyst_x">>, "m-unknown") }

\* ------------------------------------------------------------ constants
None == "None"          \* Python None as a payload
NoProgress == -1        \* progress=None argument of update_task_status
Terminal == {"completed", "failed", "cancelled"}

VARIABLES
    active_tasks,   \* task_id -> [status, progress, data, completed, queue]
    rpc,            \* position of each task's run_analysis_task coroutine
    emitted,        \* history: every event ever put on the task's queue
    statusLog,      \* history: every (status, progress) the record has had
    jobResult,      \* history: how run_hedge_fund ended for the task
    cancels,        \* number of cancel_task calls on known tasks so far
    lpc,            \* position of each listener's event_generator
    ltask,          \* the task a listener subscribed to
    connected,      \* what request.is_disconnected() would report (negated)
    received,       \* history: events yielded to each listener
    pings,          \* number of pings sent so far for tasks not yet completed
    early,          \* history: the listener subscribed before the runner
                    \* of its task started
    midRunAudience, \* history: listeners subscribed, with an open stream,
                    \* when their task was cancelled during the job body
    rejected,       \* number of requests answered with an error so far
    lookups,        \* number of status lookups answered so far
    resp            \* the last response of a request handler

taskVars == <<active_tasks, rpc, emitted, statusLog, jobResult, cancels>>
listenerVars == <<lpc, ltask, connected, received, pings, early>>
vars == <<active_tasks, rpc, emitted, statusLog, jobResult, cancels,
          lpc, ltask, connected, received, pings, early,
          midRunAudience, rejected, lookups, resp>>

\* the number of tasks and streams, and of disturbances, so far
Load == Cardinality(DOMAIN active_tasks) +
        Cardinality({l \in Listeners : lpc[l] # "idle"})
Disturbances == cancels + pings + rejected + lookups +
                Cardinality({l \in Listeners : ~connected[l]})

\* the task-side state that update_task_status and its callers rewrite
World == [tasks |-> active_tasks, emitted |-> emitted, statusLog |-> statusLog]

UpdateEvent(status, progress, data, seq) ==
    [event |-> "update", status |-> status, progress |-> progress,
     data |-> data, seq |-> seq]
EndEvent(seq) == [event |-> "end", seq |-> seq]

\* variant: one queue shared by all the tasks
QueuePut_Shared(w, task_id, kind, status, progress, data) ==
    LET seq == Len(w.emitted[task_id]) + 1
        ev == IF kind = "end" THEN EndEvent(seq)
              ELSE UpdateEvent(status, progress, data, seq)
    IN [w EXCEPT !.tasks = [u \in DOMAIN w.tasks |->
                               [w.tasks[u] EXCEPT !.queue = Append(@, ev)]],
                 !.emitted[task_id] = Append(@, ev)]

\* queue.put(item) on the unbounded asyncio.Queue of a task: append at the
\* tail.  seq is the position of the event in the task's emission history.
QueuePut(w, task_id, kind, status, progress, data) ==
    LET seq == Len(w.emitted[task_id]) + 1
        ev == IF kind = "end" THEN EndEvent(seq)
              ELSE UpdateEvent(status, progress, data, seq)
    IN [w EXCEPT !.tasks[task_id].queue = Append(@, ev),
                 !.emitted[task_id] = Append(@, ev)]

\* variant: the processing_results status is taken for a final one
EndsStream_AlsoProcessingResults(status) ==
    status \in {"completed", "failed", "processing_results"}

\* variant: the cancelled status also makes update_task_status add an end
EndsStream_AlsoCancelled(status) ==
    status \in {"completed", "failed", "cancelled"}

\* which statuses make update_task_status add the end event itself
EndsStream(status) == status \in {"completed", "failed"}

\* variant: the update event carries the progress argument, 0 when absent
update_task_status_ArgProgress(w, task_id, status, progress, data) ==
    IF task_id \notin DOMAIN w.tasks THEN w
    ELSE
      LET w1 == [w EXCEPT !.tasks[task_id].status = status]
          w2 == IF progress # NoProgress
                THEN [w1 EXCEPT !.tasks[task_id].progress = progress]
                ELSE w1
          w3 == IF data # None
                THEN [w2 EXCEPT !.tasks[task_id].data = data]
                ELSE w2
          w4 == [w3 EXCEPT !.statusLog[task_id] =
                     Append(@, <<status, w3.tasks[task_id].progress>>)]
          w5 == QueuePut(w4, task_id, "update", status,
                         IF progress = NoProgress THEN 0 ELSE progress, data)
      IN IF EndsStream(status)
         THEN QueuePut(w5, task_id, "end", "", 0, None)
         ELSE w5

\* update_task_status(task_id, status, progress, data)
update_task_status(w, task_id, status, progress, data) ==
    IF task_id \notin DOMAIN w.tasks THEN w
    ELSE
      LET w1 == [w EXCEPT !.tasks[task_id].status = status]
          w2 == IF progress # NoProgress
                THEN [w1 EXCEPT !.tasks[task_id].progress = progress]
                ELSE w1
          w3 == IF data # None
                THEN [w2 EXCEPT !.tasks[task_id].data = data]
                ELSE w2
          w4 == [w3 EXCEPT !.statusLog[task_id] =
                     Append(@, <<status, w3.tasks[task_id].progress>>)]
          w5 == QueuePut(w4, task_id, "update", status,
                         w4.tasks[task_id].progress, data)
      IN IF EndsStream(status)
         THEN QueuePut(w5, task_id, "end", "", 0, None)
         ELSE w5

\* active_tasks[task_id]["completed"] = True, guarded by the membership test
MarkCompleted(w, task_id) ==
    IF task_id \in DOMAIN w.tasks
    THEN [w EXCEPT !.tasks[task_id].completed = TRUE]
    ELSE w

Commit(w) ==
    /\ active_tasks' = w.tasks
    /\ emitted' = w.emitted
    /\ statusLog' = w.statusLog

\* ------------------------------------------------------------- responses
\* an HTTPException raised by a handler
Failure(op, code) == [op |-> op, code |-> code, task_id |-> 0, status |-> ""]

\* the handler's test `task_id not in active_tasks`
NotFound(task_id) == task_id \notin DOMAIN active_tasks

\* a handler that answers 404 and does nothing else
Raise404(op) ==
    /\ Disturbances < MaxDisturbances
    /\ resp' = Failure(op, 404)
    /\ rejected' = rejected + 1
    /\ UNCHANGED <<taskVars, listenerVars, midRunAudience, lookups>>

\* ------------------------------------------------------------ submission
\* variant: the model name is not checked
Rejects_NoModelCheck(req) ==
    \/ req.tickers = <<>>
    \/ \E i \in 1..Len(req.analysts) :
          req.analysts[i] \notin SeqToSet(ANALYST_ID_ORDER)

\* the three checks of start_analysis, in the order of the code
Rejects(req) ==
    \/ req.tickers = <<>>
    \/ \E i \in 1..Len(req.analysts) :
          req.analysts[i] \notin SeqToSet(ANALYST_ID_ORDER)
    \/ req.model_name \notin SeqToSet(LLM_NAME_ORDER)

\* variant: the record is created already marked as processing
NewRecord_Processing ==
    [status |-> "processing", progress |-> 0, data |-> None,
     completed |-> FALSE, queue |-> <<>>]

\* the initial record of a task
NewRecord ==
    [status |-> "pending", progress |-> 0, data |-> None,
     completed |-> FALSE, queue |-> <<>>]

\* POST /api/analysis.  uuid4 is taken as a source of unused identifiers;
\* identifiers are opaque, so they are handed out in increasing order.
start_analysis(req) ==
    IF Rejects(req)
    THEN /\ Disturbances < MaxDisturbances
         /\ resp' = Failure("start", 400)
         /\ rejected' = rejected + 1
         /\ UNCHANGED <<taskVars, listenerVars, midRunAudience, lookups>>
    ELSE \E task_id \in TaskIds \ DOMAIN active_tasks :
         /\ \A k \in TaskIds : k < task_id => k \in DOMAIN active_tasks
         /\ Load < MaxLoad
         /\ active_tasks' = [t \in DOMAIN active_tasks \cup {task_id} |->
                IF t = task_id THEN NewRecord ELSE active_tasks[t]]
         /\ rpc' = [rpc EXCEPT ![task_id] = "queued"]
         /\ statusLog' = [statusLog EXCEPT ![task_id] = <<<<"pending", 0>>>>]
         /\ resp' = [op |-> "start", code |-> 200, task_id |-> task_id,
                      status |-> "pending"]
         /\ UNCHANGED <<emitted, jobResult, cancels, listenerVars,
                        midRunAudience, rejected, lookups>>

\* ---------------------------------------------------------------- lookup
\* the body of the answer of get_task
TaskView(task_id) ==
    [op |-> "get", code |-> 200, task_id |-> task_id,
     status |-> active_tasks[task_id].status,
     progress |-> active_tasks[task_id].progress,
     completed |-> active_tasks[task_id].completed,
     data |-> active_tasks[task_id].data]

\* GET /api/analysis/{task_id}
get_task(task_id) ==
    IF NotFound(task_id)
    THEN Raise404("get")
    ELSE /\ Disturbances < MaxDisturbances
         /\ resp' = TaskView(task_id)
         /\ lookups' = lookups + 1
         /\ UNCHANGED <<taskVars, listenerVars, midRunAudience, rejected>>

\* ---------------------------------------------------------------- runner
\* run_analysis_task up to the first sleep
RunnerStart(task_id) ==
    /\ rpc[task_id] = "queued"
    /\ Commit(update_task_status(World, task_id, "processing", 10, None))
    /\ rpc' = [rpc EXCEPT ![task_id] = "sleep1"]
    /\ UNCHANGED <<jobResult, cancels, listenerVars, midRunAudience, rejected, lookups, resp>>

\* variant: the analyzing_data transition is left out
RunnerAnalyze_SkipsAnalyzing(task_id) ==
    /\ rpc[task_id] = "sleep1"
    /\ Commit(update_task_status(World, task_id, "running_analysis", 40, "message"))
    /\ rpc' = [rpc EXCEPT ![task_id] = "job"]
    /\ UNCHANGED <<jobResult, cancels, listenerVars, midRunAudience, rejected, lookups, resp>>

\* from the first sleep to the hand-over of the job body to a thread
RunnerAnalyze(task_id) ==
    /\ rpc[task_id] = "sleep1"
    /\ LET w1 == update_task_status(World, task_id, "analyzing_data", 20, "message")
           w2 == update_task_status(w1, task_id, "running_analysis", 40, "message")
       IN Commit(w2)
    /\ rpc' = [rpc EXCEPT ![task_id] = "job"]
    /\ UNCHANGED <<jobResult, cancels, listenerVars, midRunAudience, rejected, lookups, resp>>

\* run_hedge_fund returned: up to the second sleep
RunnerJobReturns(task_id) ==
    /\ rpc[task_id] = "job"
    /\ Commit(update_task_status(World, task_id, "processing_results", 80, "message"))
    /\ rpc' = [rpc EXCEPT ![task_id] = "sleep2"]
    /\ jobResult' = [jobResult EXCEPT ![task_id] = "returned"]
    /\ UNCHANGED <<cancels, listenerVars, midRunAudience, rejected, lookups, resp>>

\* variant: the record is not marked completed after a failure
RunnerFailed_NotMarked(w, task_id) ==
    update_task_status(w, task_id, "failed", NoProgress, "error")

\* the except branch and the final marking
RunnerFailed(w, task_id) ==
    MarkCompleted(update_task_status(w, task_id, "failed", NoProgress, "error"),
                  task_id)

\* run_hedge_fund raised
RunnerJobRaises(task_id) ==
    /\ rpc[task_id] = "job"
    /\ Commit(RunnerFailed(World, task_id))
    /\ rpc' = [rpc EXCEPT ![task_id] = "done"]
    /\ jobResult' = [jobResult EXCEPT ![task_id] = "raised"]
    /\ UNCHANGED <<cancels, listenerVars, midRunAudience, rejected, lookups, resp>>

\* after the second sleep: the completed update and the final marking
RunnerFinished(w, task_id) ==
    MarkCompleted(update_task_status(w, task_id, "completed", 100, "results"),
                  task_id)

RunnerComplete(task_id) ==
    /\ rpc[task_id] = "sleep2"
    /\ Commit(RunnerFinished(World, task_id))
    /\ rpc' = [rpc EXCEPT ![task_id] = "done"]
    /\ UNCHANGED <<jobResult, cancels, listenerVars, midRunAudience, rejected, lookups, resp>>

\* ----------------------------------------------------------- cancellation
\* variant: the cancellation passes progress 0 to update_task_status
Cancelled_ResetsProgress(w, task_id) ==
    LET w1 == update_task_status(w, task_id, "cancelled", 0, "cancel_message")
        w2 == QueuePut(w1, task_id, "end", "", 0, None)
    IN [w2 EXCEPT !.tasks[task_id].completed = TRUE]

\* the body of cancel_task after the membership test
Cancelled(w, task_id) ==
    LET w1 == update_task_status(w, task_id, "cancelled", NoProgress, "cancel_message")
        w2 == QueuePut(w1, task_id, "end", "", 0, None)
    IN [w2 EXCEPT !.tasks[task_id].completed = TRUE]

\* DELETE /api/analysis/{task_id}
cancel_task(task_id) ==
    IF NotFound(task_id)
    THEN Raise404("cancel")
    ELSE /\ Disturbances < MaxDisturbances
         /\ Commit(Cancelled(World, task_id))
         /\ cancels' = cancels + 1
         /\ midRunAudience' = midRunAudience \cup
                {l \in Listeners : /\ rpc[task_id] = "job"
                                   /\ lpc[l] \notin {"idle", "closed"}
                                   /\ ltask[l] = task_id}
         /\ resp' = [op |-> "cancel", code |-> 200, task_id |-> task_id,
                      status |-> "success"]
         /\ UNCHANGED <<rpc, jobResult, listenerVars, rejected, lookups>>

\* -------------------------------------------------------------- listeners
Delivered(src, ev) == [src |-> src, ev |-> ev]

\* variant: the stream is opened without looking the task up
task_events_Unchecked(l, task_id) ==
    /\ lpc[l] = "idle"
    /\ \A k \in Listeners : k < l => lpc[k] # "idle"
    /\ Load < MaxLoad
    /\ lpc' = [lpc EXCEPT ![l] = "init"]
    /\ ltask' = [ltask EXCEPT ![l] = task_id]
    /\ early' = [early EXCEPT ![l] = FALSE]
    /\ UNCHANGED <<taskVars, connected, received, pings,
                   midRunAudience, rejected, lookups, resp>>

\* GET /api/events/{task_id}: for a known task the stream is handed to the
\* response and has not produced anything yet.  Listeners are numbered in
\* the order in which they subscribe.
task_events(l, task_id) ==
    /\ lpc[l] = "idle"
    /\ \A k \in Listeners : k < l => lpc[k] # "idle"
    /\ IF NotFound(task_id)
       THEN Raise404("events")
       ELSE /\ Load < MaxLoad
            /\ lpc' = [lpc EXCEPT ![l] = "init"]
            /\ ltask' = [ltask EXCEPT ![l] = task_id]
            /\ early' = [early EXCEPT ![l] = (rpc[task_id] = "queued")]
            /\ UNCHANGED <<taskVars, connected, received, pings,
                           midRunAudience, rejected, lookups, resp>>

\* variant: the snapshot reports the default progress, not the record's
InitialState_DefaultProgress(rec) ==
    [event |-> "update", status |-> rec.status, progress |-> 0,
     data |-> rec.data]

\* initial_state of event_generator
InitialState(rec) ==
    [event |-> "update", status |-> rec.status, progress |-> rec.progress,
     data |-> rec.data]

\* event_generator up to its first yield
StreamSnapshot(l) ==
    /\ lpc[l] = "init"
    /\ received' = [received EXCEPT ![l] =
           Append(@, Delivered("snapshot", InitialState(active_tasks[ltask[l]])))]
    /\ lpc' = [lpc EXCEPT ![l] = "loop"]
    /\ UNCHANGED <<taskVars, ltask, connected, pings, early, midRunAudience, rejected, lookups, resp>>

\* variant: the loop does not look at the connection
StreamCheckDisconnected_Ignores(l) ==
    /\ lpc[l] = "loop"
    /\ lpc' = [lpc EXCEPT ![l] = "wait"]
    /\ UNCHANGED <<taskVars, ltask, connected, received, pings, early,
                   midRunAudience, rejected, lookups, resp>>

\* head of the loop: await request.is_disconnected()
StreamCheckDisconnected(l) ==
    /\ lpc[l] = "loop"
    /\ lpc' = [lpc EXCEPT ![l] = IF connected[l] THEN "wait" ELSE "closed"]
    /\ UNCHANGED <<taskVars, ltask, connected, received, pings, early, midRunAudience, rejected, lookups, resp>>

\* variant: the loop is not left after forwarding end
AfterForward_NoBreak(ev) == "loop"

\* where the stream goes after forwarding a dequeued event
AfterForward(ev) == IF ev.event = "end" THEN "closed" ELSE "loop"

\* variant: the head of the queue is forwarded but left on the queue
StreamDequeue_Peek(l) ==
    LET t == ltask[l]
        queue == active_tasks[t].queue
    IN /\ lpc[l] = "wait"
       /\ queue # <<>>
       /\ received' = [received EXCEPT ![l] =
              Append(@, Delivered("queue", Head(queue)))]
       /\ lpc' = [lpc EXCEPT ![l] = AfterForward(Head(queue))]
       /\ UNCHANGED <<taskVars, ltask, connected, pings, early,
                      midRunAudience, rejected, lookups, resp>>

\* the wait returned an event: forward it, and stop on end
StreamDequeue(l) ==
    LET t == ltask[l]
        queue == active_tasks[t].queue
    IN /\ lpc[l] = "wait"
       /\ queue # <<>>
       /\ active_tasks' = [active_tasks EXCEPT ![t].queue = Tail(queue)]
       /\ received' = [received EXCEPT ![l] =
              Append(@, Delivered("queue", Head(queue)))]
       /\ lpc' = [lpc EXCEPT ![l] = AfterForward(Head(queue))]
       /\ UNCHANGED <<rpc, emitted, statusLog, jobResult, cancels,
                      ltask, connected, pings, early, midRunAudience, rejected, lookups, resp>>

\* variant: the timeout branch yields no keep-alive
StreamTimeout_NoPing(l) ==
    LET t == ltask[l]
    IN /\ lpc[l] = "wait"
       /\ active_tasks[t].queue = <<>>
       /\ active_tasks[t].completed \/ Disturbances < MaxDisturbances
       /\ received' = received
       /\ pings' = IF active_tasks[t].completed THEN pings ELSE pings + 1
       /\ lpc' = [lpc EXCEPT ![l] = "pinged"]
       /\ UNCHANGED <<taskVars, ltask, connected, early, midRunAudience, rejected, lookups, resp>>

\* variant: the keep-alive is put on the queue of the task
StreamTimeout_QueuesPing(l) ==
    LET t == ltask[l]
    IN /\ lpc[l] = "wait"
       /\ active_tasks[t].queue = <<>>
       /\ active_tasks[t].completed \/ Disturbances < MaxDisturbances
       /\ active_tasks' = [active_tasks EXCEPT ![t].queue =
              Append(@, [event |-> "ping", seq |-> 0])]
       /\ pings' = IF active_tasks[t].completed THEN pings ELSE pings + 1
       /\ lpc' = [lpc EXCEPT ![l] = "pinged"]
       /\ UNCHANGED <<rpc, emitted, statusLog, jobResult, cancels, ltask,
                      connected, received, early, midRunAudience, rejected,
                      lookups, resp>>

\* the wait timed out: yield the keep-alive.  Pings sent while the task is
\* not completed count as disturbances.
StreamTimeout(l) ==
    LET t == ltask[l]
    IN /\ lpc[l] = "wait"
       /\ active_tasks[t].queue = <<>>
       /\ active_tasks[t].completed \/ Disturbances < MaxDisturbances
       /\ received' = [received EXCEPT ![l] =
              Append(@, Delivered("timeout", [event |-> "ping"]))]
       /\ pings' = IF active_tasks[t].completed THEN pings ELSE pings + 1
       /\ lpc' = [lpc EXCEPT ![l] = "pinged"]
       /\ UNCHANGED <<taskVars, ltask, connected, early, midRunAudience, rejected, lookups, resp>>

\* variant: end follows every keep-alive ping
StreamAfterPing_AlwaysEnds(l) ==
    /\ lpc[l] = "pinged"
    /\ received' = [received EXCEPT ![l] =
           Append(@, Delivered("timeout", [event |-> "end"]))]
    /\ lpc' = [lpc EXCEPT ![l] = "closed"]
    /\ UNCHANGED <<taskVars, ltask, connected, pings, early,
                   midRunAudience, rejected, lookups, resp>>

\* resumed after the ping: end the stream if the task is marked completed
StreamAfterPing(l) ==
    /\ lpc[l] = "pinged"
    /\ IF active_tasks[ltask[l]].completed
       THEN /\ received' = [received EXCEPT ![l] =
                   Append(@, Delivered("timeout", [event |-> "end"]))]
            /\ lpc' = [lpc EXCEPT ![l] = "closed"]
       ELSE /\ lpc' = [lpc EXCEPT ![l] = "loop"]
            /\ UNCHANGED received
    /\ UNCHANGED <<taskVars, ltask, connected, pings, early, midRunAudience, rejected, lookups, resp>>

\* the client of an open stream goes away
Disconnect(l) ==
    /\ lpc[l] \notin {"idle", "closed"}
    /\ connected[l]
    /\ Disturbances < MaxDisturbances
    /\ connected' = [connected EXCEPT ![l] = FALSE]
    /\ UNCHANGED <<taskVars, lpc, ltask, received, pings, early, midRunAudience, rejected, lookups, resp>>

Init ==
    /\ active_tasks = <<>>
    /\ rpc = [t \in TaskIds |-> "none"]
    /\ emitted = [t \in TaskIds |-> <<>>]
    /\ statusLog = [t \in TaskIds |-> <<>>]
    /\ jobResult = [t \in TaskIds |-> "none"]
    /\ cancels = 0
    /\ lpc = [l \in Listeners |-> "idle"]
    /\ ltask = [l \in Listeners |-> 0]
    /\ connected = [l \in Listeners |-> TRUE]
    /\ received = [l \in Listeners |-> <<>>]
    /\ pings = 0
    /\ early = [l \in Listeners |-> FALSE]
    /\ midRunAudience = {}
    /\ rejected = 0
    /\ lookups = 0
    /\ resp = Failure("", 0)

Next ==
    \/ \E req \in Requests : start_analysis(req)
    \/ \E t \in TaskIds : RunnerStart(t)
    \/ \E t \in TaskIds : RunnerAnalyze(t)
    \/ \E t \in TaskIds : RunnerJobReturns(t)
    \/ \E t \in TaskIds : RunnerJobRaises(t)
    \/ \E t \in TaskIds : RunnerComplete(t)
    \/ \E t \in AnyIds : get_task(t)
    \/ \E t \in AnyIds : cancel_task(t)
    \/ \E l \in Listeners, t \in AnyIds : task_events(l, t)
    \/ \E l \in Listeners : StreamSnapshot(l)
    \/ \E l \in Listeners : StreamCheckDisconnected(l)
    \/ \E l \in Listeners : StreamDequeue(l)
    \/ \E l \in Listeners : StreamTimeout(l)
    \/ \E l \in Listeners : StreamAfterPing(l)
    \/ \E l \in Listeners : Disconnect(l)

Spec == Init /\ [][Next]_vars

\* ---------------------------------------------------------------- fairness
RunnerStep(t) ==
    \/ RunnerStart(t)
    \/ RunnerAnalyze(t)
    \/ RunnerJobReturns(t)
    \/ RunnerJobRaises(t)
    \/ RunnerComplete(t)

StreamStep(l) ==
    \/ StreamSnapshot(l)
    \/ StreamCheckDisconnected(l)
    \/ StreamDequeue(l)
    \/ StreamTimeout(l)
    \/ StreamAfterPing(l)

\* The event loop runs every ready coroutine: a runner that can take its
\* next step takes it (the sleeps end, the job body returns or raises), and
\* a stream's wait ends with an event or with its one-second timeout.
FairSpec ==
    /\ Init /\ [][Next]_vars
    /\ \A t \in TaskIds : WF_vars(RunnerStep(t))
    /\ \A l \in Listeners : WF_vars(StreamStep(l))

\* The undisturbed service: submissions are valid, subscriptions name known
\* tasks, and nobody cancels, looks up or disconnects.
QuietNext ==
    \/ \E req \in Requests : ~Rejects(req) /\ start_analysis(req)
    \/ \E t \in TaskIds : RunnerStart(t)
    \/ \E t \in TaskIds : RunnerAnalyze(t)
    \/ \E t \in TaskIds : RunnerJobReturns(t)
    \/ \E t \in TaskIds : RunnerJobRaises(t)
    \/ \E t \in TaskIds : RunnerComplete(t)
    \/ \E l \in Listeners, t \in TaskIds : ~NotFound(t) /\ task_events(l, t)
    \/ \E l \in Listeners : StreamSnapshot(l)
    \/ \E l \in Listeners : StreamCheckDisconnected(l)
    \/ \E l \in Listeners : StreamDequeue(l)
    \/ \E l \in Listeners : StreamTimeout(l)
    \/ \E l \in Listeners : StreamAfterPing(l)

QuietFairSpec ==
    /\ Init /\ [][QuietNext]_vars
    /\ \A t \in TaskIds : WF_vars(RunnerStep(t))
    /\ \A l \in Listeners : WF_vars(StreamStep(l))

\* ------------------------------------------------------------- shorthand
Known == DOMAIN active_tasks
Statuses(t) == {statusLog[t][i][1] : i \in 1..Len(statusLog[t])}
WasCancelled(t) == "cancelled" \in Statuses(t)
Updates(log) == SelectSeq(log, LAMBDA e : e.event = "update")
Ends(log) == SelectSeq(log, LAMBDA e : e.event = "end")

\* ------------------------------------------------------------------- C1
\* C1: once a task's status is completed, failed or cancelled, no step
\* changes that task's status.
C1_TerminalAbsorbing ==
    [][\A t \in Known :
          active_tasks[t].status \in Terminal
              => active_tasks'[t].status = active_tasks[t].status]_vars

\* ------------------------------------------------------------------- C2
\* C2: in every reachable state, a task with completed=true has a status
\* among completed, failed, cancelled.
C2_CompletedImpliesTerminal ==
    \A t \in Known :
        active_tasks[t].completed => active_tasks[t].status \in Terminal

\* ------------------------------------------------------------------- C3
Subscribed(l) == lpc[l] # "idle"
OnTask(t) == {l \in Listeners : Subscribed(l) /\ ltask[l] = t}
EndCount(l) == Len(SelectSeq(received[l], LAMBDA d : d.ev.event = "end"))
ClosedByEnd(l) ==
    /\ lpc[l] = "closed"
    /\ received[l] # <<>>
    /\ received[l][Len(received[l])].ev.event = "end"
    /\ EndCount(l) = 1

\* nothing is left to run for the listener: its stream cannot step and the
\* runner of its task cannot step
Quiescent(l) ==
    /\ ~ENABLED StreamStep(l)
    /\ ~ENABLED RunnerStep(ltask[l])

\* at most one end, nothing after it, and the stream is closed by it
EndIsLast(l) ==
    /\ EndCount(l) <= 1
    /\ \A i \in 1..Len(received[l]) :
          received[l][i].ev.event = "end" => i = Len(received[l])
    /\ EndCount(l) = 1 <=> lpc[l] = "closed"

\* the listener of the claim: subscribed before the runner's first
\* transition, alone on its task, still connected, task never cancelled
C3_Case(l) ==
    /\ Subscribed(l)
    /\ early[l]
    /\ connected[l]
    /\ OnTask(ltask[l]) = {l}
    /\ ~WasCancelled(ltask[l])

\* C3: for a task never cancelled whose runner reaches completed or failed,
\* a single listener subscribed before the runner's first transition that
\* stays connected receives exactly one end event, and it is the last event
\* of its stream: it has at most one end, nothing follows the end, the end
\* comes only once the status is completed or failed, and when nothing is
\* left to run the stream has been closed by its end.
C3_OneEndLast ==
    \A l \in Listeners :
        C3_Case(l) =>
            /\ EndIsLast(l)
            /\ EndCount(l) = 1 =>
                  active_tasks[ltask[l]].status \in {"completed", "failed"}
            /\ Quiescent(l) => ClosedByEnd(l)

\* the same as a property of fair behaviours
C3_Eventually ==
    \A l \in Listeners : C3_Case(l) ~> (ClosedByEnd(l) \/ ~C3_Case(l))

\* such a listener has received its end
C3_Witness ==
    \E l \in Listeners :
        /\ C3_Case(l) /\ ClosedByEnd(l)
        /\ rpc[ltask[l]] = "done"

\* ------------------------------------------------------------------- C4
\* C4: when a task is cancelled while its runner executes the job body,
\* every listener subscribed at that moment that stays connected receives
\* exactly one end event, whether the job body then succeeds or fails: it
\* has at most one end, and when nothing is left to run its stream has
\* been closed by its end.
C4_MidRunCancelEnds ==
    \A l \in midRunAudience :
        connected[l] =>
            /\ EndIsLast(l)
            /\ Quiescent(l) => ClosedByEnd(l)

\* two listeners of a task cancelled mid-run have both received their end,
\* after the job body returned
C4_Witness ==
    /\ Cardinality(midRunAudience) = 2
    /\ \A l \in midRunAudience : connected[l] /\ ClosedByEnd(l)
    /\ \E l \in midRunAudience : jobResult[ltask[l]] = "returned"

\* ------------------------------------------------------------------- C5
\* C5: a cancellation of a known task whose status is not terminal leaves
\* status=cancelled and completed=true, and appends to the task's queue
\* exactly one update carrying status cancelled immediately followed by
\* exactly one end, and nothing else.
C5_CancelEffect ==
    [][\A t \in Known :
          (cancel_task(t) /\ active_tasks[t].status \notin Terminal) =>
             LET q == active_tasks[t].queue
                 q2 == active_tasks'[t].queue
                 n == Len(q)
             IN /\ active_tasks'[t].status = "cancelled"
                /\ active_tasks'[t].completed
                /\ Len(q2) = n + 2
                /\ SubSeq(q2, 1, n) = q
                /\ q2[n + 1].event = "update"
                /\ q2[n + 1].status = "cancelled"
                /\ q2[n + 2].event = "end"]_vars

\* a cancellation has acted on a task that was not terminal
C5_Witness ==
    \E t \in Known :
        \E i \in 2..Len(statusLog[t]) :
            /\ statusLog[t][i][1] = "cancelled"
            /\ statusLog[t][i - 1][1] \notin Terminal
            /\ active_tasks[t].completed

\* ------------------------------------------------------------------- C6
\* the stream of the listener started when the task's status was terminal
StartedLate(l) ==
    /\ received[l] # <<>>
    /\ received[l][1].src = "snapshot"
    /\ received[l][1].ev.status \in Terminal

\* C6 as stated: a listener whose stream starts when the status is
\* terminal receives the snapshot and then end as its very next event,
\* whatever the queue holds.
C6_SnapshotThenEnd ==
    \A l \in Listeners :
        (StartedLate(l) /\ Len(received[l]) >= 2) =>
            received[l][2].ev.event = "end"

\* C6 amended: a listener whose stream starts when the task's status is
\* terminal receives first an update snapshot carrying that status and the
\* record's progress and payload; its next event is the head of the task's
\* queue at that time (end only when that head is an end event), or a ping
\* when the queue is empty.
C6_SnapshotThenBacklog ==
    [][\A l \in Listeners :
          LET rec == active_tasks[ltask[l]]
              now == received'[l]
          IN /\ (received[l] = <<>> /\ now # <<>> /\ rec.status \in Terminal) =>
                    /\ Len(now) = 1
                    /\ now[1].ev.event = "update"
                    /\ now[1].ev.status = rec.status
                    /\ now[1].ev.progress = rec.progress
                    /\ now[1].ev.data = rec.data
             /\ (StartedLate(l) /\ Len(received[l]) = 1 /\ now # received[l]) =>
                    /\ Len(now) = 2
                    /\ now[1] = received[l][1]
                    /\ IF rec.queue = <<>>
                       THEN now[2].ev.event = "ping"
                       ELSE now[2].ev = Head(rec.queue)]_vars

\* a listener that started late and whose second event is a queued update
C6_Witness ==
    \E l \in Listeners :
        /\ StartedLate(l)
        /\ Len(received[l]) >= 2
        /\ received[l][2].src = "queue"
        /\ received[l][2].ev.event = "update"

\* ------------------------------------------------------------------- C7
FromQueue(l) == SelectSeq(received[l], LAMBDA d : d.src = "queue")
FirstEnd(log) ==
    CHOOSE i \in 1..Len(log) :
        log[i].event = "end" /\ \A k \in 1..(i - 1) : log[k].event # "end"

\* C7: the events a listener received from the queue are in emission order
\* (a subsequence of the task's emission history), and a single connected
\* listener skips no queued event before the first end: what it took from
\* the queue is a gap-free run of the history from its start, and once its
\* stream has closed it holds every event emitted before the first end.
C7_FifoNoSkip ==
    \A l \in Listeners :
        Subscribed(l) =>
            LET t == ltask[l]
                qs == FromQueue(l)
            IN /\ \A i \in 1..Len(qs) :
                     /\ qs[i].ev.seq \in 1..Len(emitted[t])
                     /\ emitted[t][qs[i].ev.seq] = qs[i].ev
               /\ \A i, k \in 1..Len(qs) :
                     i < k => qs[i].ev.seq < qs[k].ev.seq
               /\ (OnTask(t) = {l} /\ connected[l]) =>
                     /\ \A i \in 1..Len(qs) : qs[i].ev.seq = i
                     /\ lpc[l] = "closed" =>
                           Len(qs) >= FirstEnd(emitted[t]) - 1

\* ------------------------------------------------------------------- C8
HappyPath ==
    << <<"pending", 0>>, <<"processing", 10>>, <<"analyzing_data", 20>>,
       <<"running_analysis", 40>>, <<"processing_results", 80>>,
       <<"completed", 100>> >>
IsPrefix(s, t) == Len(s) <= Len(t) /\ SubSeq(t, 1, Len(s)) = s

\* C8: when the job body succeeds and no cancellation is requested, the
\* record goes through pending(0), processing(10), analyzing_data(20),
\* running_analysis(40), processing_results(80), completed(100) in this
\* order, nothing skipped or repeated, with one update event enqueued per
\* transition after pending; the final record is completed with a payload.
C8_HappyPath ==
    \A t \in Known :
        (~WasCancelled(t) /\ jobResult[t] # "raised") =>
            /\ IsPrefix(statusLog[t], HappyPath)
            /\ Len(Updates(emitted[t])) = Len(statusLog[t]) - 1
            /\ \A i \in 1..Len(Updates(emitted[t])) :
                  /\ Updates(emitted[t])[i].status = statusLog[t][i + 1][1]
                  /\ Updates(emitted[t])[i].progress = statusLog[t][i + 1][2]
            /\ rpc[t] = "done" =>
                  /\ statusLog[t] = HappyPath
                  /\ active_tasks[t].status = "completed"
                  /\ active_tasks[t].progress = 100
                  /\ active_tasks[t].data # None

\* a run that succeeded without cancellation has finished
C8_Witness ==
    \E t \in Known :
        ~WasCancelled(t) /\ jobResult[t] = "returned" /\ rpc[t] = "done"

\* ------------------------------------------------------------------- C9
RunnerUpdates(t) == SelectSeq(emitted[t],
                        LAMBDA e : e.event = "update" /\ e.status # "cancelled")

\* C9: when the job body raises, the runner's next and last transition is
\* failed with an error payload: the runner enqueues no processing_results
\* or completed update, it ends normally, and it finishes with one end
\* event enqueued right after the failed update and with completed=true.
C9_FailureHandled ==
    \A t \in Known :
        jobResult[t] = "raised" =>
            LET ru == RunnerUpdates(t)
                last == ru[Len(ru)]
            IN /\ rpc[t] = "done"
               /\ active_tasks[t].completed
               /\ Len(ru) = 4
               /\ last.status = "failed"
               /\ last.data = "error"
               /\ \A i \in 1..Len(ru) :
                     ru[i].status \notin {"processing_results", "completed"}
               /\ Len(emitted[t]) > last.seq
               /\ emitted[t][last.seq + 1].event = "end"
               /\ Len(Ends(emitted[t])) =
                     1 + Len(SelectSeq(emitted[t], LAMBDA e :
                               e.event = "update" /\ e.status = "cancelled"))

\* a job body has raised
C9_Witness ==
    \E t \in Known : jobResult[t] = "raised" /\ rpc[t] = "done"

\* ------------------------------------------------------------------ C10
\* a submission the claim calls invalid
Invalid(req) ==
    \/ Len(req.tickers) = 0
    \/ SeqToSet(req.analysts) \ SeqToSet(ANALYST_ID_ORDER) # {}
    \/ req.model_name \notin SeqToSet(LLM_NAME_ORDER)

\* C10: a submission with an empty target list, or naming a capability
\* outside the catalog, or naming a model outside the catalog, fails with a
\* validation error (400) and creates no task record and starts no runner.
C10_InvalidRejected ==
    [][\A req \in Requests :
          (Invalid(req) /\ start_analysis(req)) =>
              /\ resp'.code = 400
              /\ active_tasks' = active_tasks
              /\ rpc' = rpc]_vars

\* an invalid submission has been answered
C10_Witness == rejected > 0 /\ resp.code = 400

\* ------------------------------------------------------------------ C11
\* C11: every valid submission answers with an identifier that no earlier
\* submission was answered with, and when it answers the registry holds,
\* under that identifier, a record with status pending, progress 0,
\* completed false and an empty queue; a status lookup made before the
\* runner of the task has started (and before any cancellation) reports
\* pending.  Records are never removed, so the identifiers answered so far
\* are the keys of the registry.
C11_FreshPendingRecord ==
    [][/\ \A req \in Requests :
             (~Invalid(req) /\ start_analysis(req)) =>
                 /\ resp'.code = 200
                 /\ resp'.task_id \notin DOMAIN active_tasks
                 /\ resp'.task_id \in DOMAIN active_tasks'
                 /\ DOMAIN active_tasks \subseteq DOMAIN active_tasks'
                 /\ active_tasks'[resp'.task_id].status = "pending"
                 /\ active_tasks'[resp'.task_id].progress = 0
                 /\ active_tasks'[resp'.task_id].completed = FALSE
                 /\ active_tasks'[resp'.task_id].queue = <<>>
       /\ \A t \in Known :
             (rpc[t] = "queued" /\ ~WasCancelled(t) /\ get_task(t)) =>
                 /\ resp'.code = 200
                 /\ resp'.task_id = t
                 /\ resp'.status = "pending"
                 /\ resp'.progress = 0
                 /\ resp'.completed = FALSE]_vars

\* two submissions have been answered and a lookup of a task whose runner
\* has not started has been answered
C11_Witness ==
    /\ Cardinality(Known) = 2
    /\ resp.op = "get" /\ resp.code = 200
    /\ rpc[resp.task_id] = "queued"

\* ------------------------------------------------------------------ C12
\* C12: a status lookup, an event subscription and a cancellation that name
\* an identifier never issued each fail with NotFound (404) and change
\* neither the registry, nor a queue, nor a runner, nor a stream.
C12_UnknownIdNotFound ==
    [][\A id \in AnyIds :
          (/\ id \notin DOMAIN active_tasks
           /\ \/ get_task(id)
              \/ cancel_task(id)
              \/ \E l \in Listeners : task_events(l, id)) =>
              /\ resp'.code = 404
              /\ resp'.op \in {"get", "cancel", "events"}
              /\ UNCHANGED <<taskVars, listenerVars>>]_vars

\* a request naming an identifier never issued has been answered while a
\* task was registered
C12_Witness ==
    /\ resp.code = 404
    /\ resp.op \in {"get", "cancel", "events"}
    /\ Known # {}

\* ------------------------------------------------------------------ C13
\* a step taken for task t: a runner transition (a failure of the job body
\* included), a cancellation, or a step of a stream subscribed to t
StepFor(t) ==
    \/ RunnerStep(t)
    \/ cancel_task(t)
    \/ \E l \in OnTask(t) : StreamStep(l)

\* C13: every step taken for one task leaves the status, progress, payload,
\* completed flag and queue of every other task unchanged, and leaves the
\* set of registered identifiers unchanged.
C13_FrameOtherTasks ==
    [][\A t \in Known :
          StepFor(t) =>
              /\ DOMAIN active_tasks' = DOMAIN active_tasks
              /\ \A u \in Known \ {t} :
                    active_tasks'[u] = active_tasks[u]]_vars

\* one task has failed and its events were streamed while another task,
\* registered before the failure, still has its initial record
C13_Witness ==
    \E t, u \in Known :
        /\ t < u
        /\ jobResult[t] = "raised"
        /\ active_tasks[t].status = "failed"
        /\ \E l \in OnTask(t) : ClosedByEnd(l)
        /\ active_tasks[u] = NewRecord

\* ------------------------------------------------------------------ C14
\* C14: for every task, in every reachable state the progress of the record
\* is an integer in [0,100], and no step (of the runner or of a cancellation
\* in particular) ever lowers it.
C14_ProgressBoundedMonotone ==
    /\ [](\A t \in Known : active_tasks[t].progress \in 0..100)
    /\ [][\A t \in Known :
             active_tasks'[t].progress >= active_tasks[t].progress]_vars

\* a task was cancelled at progress 40 and its runner went on to 80 or more
C14_Witness ==
    \E t \in Known :
        /\ \E i \in 1..Len(statusLog[t]) : statusLog[t][i] = <<"cancelled", 40>>
        /\ active_tasks[t].progress >= 80

\* ------------------------------------------------------------------ C15
\* the stream of the task has been ended: an end event was put on its queue
Ended(t) == Ends(emitted[t]) # <<>>

\* C15: once a terminal status (completed, failed, or a cancelled requested
\* from outside) has been emitted for a task together with its end event,
\* the runner puts nothing more on the queue of that task: no step of the
\* runner emits an update or an end after that point.
C15_RunnerSilentAfterEnd ==
    [][\A t \in Known :
          (Ended(t) /\ RunnerStep(t)) => emitted'[t] = emitted[t]]_vars

\* ------------------------------------------------------------------ C16
\* the positions, in the emission history of its task, of the events the
\* listener received from the queue
QueueSeqs(l) == {FromQueue(l)[i].ev.seq : i \in 1..Len(FromQueue(l))}

\* C16: when two or more listeners are attached to the same task, each
\* event placed on the queue of the task is forwarded to at most one of
\* them: no queued event is received by two listeners.
C16_AtMostOneReceiver ==
    \A t \in Known : \A l1, l2 \in OnTask(t) :
        l1 # l2 => QueueSeqs(l1) \cap QueueSeqs(l2) = {}

\* two streams of one task were open at the same time and took turns on
\* its queue
C16_Witness ==
    \E t \in Known : \E l1, l2 \in OnTask(t) :
        /\ l1 # l2
        /\ \E a, c \in QueueSeqs(l1) : \E b \in QueueSeqs(l2) :
              a < b /\ b < c

\* ------------------------------------------------------------------ C17
\* the two listeners are subscribed to the same task
BothOn(t) == OnTask(t) = Listeners

\* the listener received its end from the stream's timeout branch
EndAfterTimeout(l) ==
    /\ ClosedByEnd(l)
    /\ received[l][Len(received[l])].src = "timeout"

\* C17: with two listeners subscribed to the same task, fair scheduling and
\* a job body that ends, both streams eventually close with an end event,
\* and not before the task is terminal; a listener that did not take an end
\* from the queue receives it after a ping, on a wait that timed out once
\* completed was true.
C17_BothStreamsEnd ==
    /\ \A t \in TaskIds :
          (t \in Known /\ BothOn(t)) ~>
              (\A l \in Listeners : ClosedByEnd(l))
    /\ [](\A l \in Listeners :
            /\ ClosedByEnd(l) =>
                  /\ active_tasks[ltask[l]].status \in Terminal
                  /\ Ends(emitted[ltask[l]]) # <<>>
            /\ EndAfterTimeout(l) =>
                  /\ Len(received[l]) >= 2
                  /\ received[l][Len(received[l]) - 1].ev.event = "ping"
                  /\ active_tasks[ltask[l]].completed)

\* both streams of a task are closed by an end: one took the end of the
\* runner from the queue, the other was given one after a ping
C17_Witness ==
    \E t \in Known :
        /\ BothOn(t)
        /\ \E l1, l2 \in Listeners :
              /\ ClosedByEnd(l1) /\ ClosedByEnd(l2)
              /\ received[l1][Len(received[l1])].src = "queue"
              /\ EndAfterTimeout(l2)

\* ------------------------------------------------------------------ C18
\* C18: once the stream of a listener has observed that the listener is
\* disconnected, the stream closes: the observing step forwards nothing and
\* takes nothing from the queue, and a closed stream stays closed, forwards
\* no event to its listener and removes no event from the queue.
C18_DisconnectedStreamStops ==
    [][\A l \in Listeners :
          /\ (~connected[l] /\ StreamCheckDisconnected(l)) =>
                 /\ lpc'[l] = "closed"
                 /\ received'[l] = received[l]
                 /\ active_tasks' = active_tasks
          /\ lpc[l] = "closed" =>
                 /\ lpc'[l] = "closed"
                 /\ received'[l] = received[l]
                 /\ ~StreamDequeue(l)
                 /\ \A t \in Known :
                       Len(active_tasks'[t].queue) < Len(active_tasks[t].queue)
                           => \E k \in OnTask(t) \ {l} : StreamDequeue(k)]_vars

\* a stream was closed on a disconnection while the queue of its task still
\* holds events that it did not forward
C18_Witness ==
    \E l \in Listeners :
        /\ lpc[l] = "closed" /\ ~connected[l]
        /\ ~ClosedByEnd(l)
        /\ active_tasks[ltask[l]].queue # <<>>

\* ------------------------------------------------------------------ C19
Ping == Delivered("timeout", [event |-> "ping"])

\* C19: pings are made only by the stream of a listener on a wait that
\* timed out and are never put on a queue: in every reachable state every
\* queue (and every emission history) holds only update and end events and
\* every ping a listener received came from the timeout branch, and each
\* wait that times out forwards exactly one ping to its listener and leaves
\* the queues alone.
C19_PingsOnlyFromTimeout ==
    /\ [](/\ \A t \in Known :
              /\ \A i \in 1..Len(active_tasks[t].queue) :
                    active_tasks[t].queue[i].event \in {"update", "end"}
              /\ \A i \in 1..Len(emitted[t]) :
                    emitted[t][i].event \in {"update", "end"}
          /\ \A l \in Listeners : \A i \in 1..Len(received[l]) :
                received[l][i].ev.event = "ping" <=>
                    received[l][i].src = "timeout" /\ received[l][i] = Ping)
    /\ [][\A l \in Listeners :
             StreamTimeout(l) =>
                 /\ received'[l] = Append(received[l], Ping)
                 /\ active_tasks' = active_tasks]_vars

\* a connected listener of a running task has been sent a ping
C19_Witness ==
    \E l \in Listeners :
        /\ connected[l]
        /\ lpc[l] = "pinged"
        /\ received[l][Len(received[l])] = Ping
        /\ ~active_tasks[ltask[l]].completed

\* ------------------------------------------------------------------ C20
\* the update event that a step puts first on the emission history of t
NextEmitted(t) == emitted'[t][Len(emitted[t]) + 1]

\* C20: the transitions to failed and to cancelled leave the progress of
\* the record unchanged, and the update event they emit carries the
\* progress the record had just before the transition.
C20_FailedCancelledKeepProgress ==
    [][\A t \in Known :
          /\ RunnerJobRaises(t) =>
                /\ active_tasks'[t].status = "failed"
                /\ active_tasks'[t].progress = active_tasks[t].progress
                /\ NextEmitted(t).event = "update"
                /\ NextEmitted(t).status = "failed"
                /\ NextEmitted(t).progress = active_tasks[t].progress
          /\ cancel_task(t) =>
                /\ active_tasks'[t].status = "cancelled"
                /\ active_tasks'[t].progress = active_tasks[t].progress
                /\ NextEmitted(t).event = "update"
                /\ NextEmitted(t).status = "cancelled"
                /\ NextEmitted(t).progress = active_tasks[t].progress]_vars

\* a task was cancelled during its job body and the job body then raised:
\* both updates carry the progress 40 of the record
C20_Witness ==
    \E t \in Known :
        /\ active_tasks[t].status = "failed"
        /\ active_tasks[t].progress = 40
        /\ \E i, j \in 1..Len(emitted[t]) :
              /\ emitted[t][i].event = "update"
              /\ emitted[t][i].status = "cancelled"
              /\ emitted[t][i].progress = 40
              /\ emitted[t][j].event = "update"
              /\ emitted[t][j].status = "failed"
              /\ emitted[t][j].progress = 40

\* ------------------------------------------------------------------ C21
\* the event at position seq of the emission history of t is an update
\* with a terminal status
TerminalUpdateAt(t, seq) ==
    /\ seq \in 1..Len(emitted[t])
    /\ emitted[t][seq].event = "update"
    /\ emitted[t][seq].status \in Terminal

\* C21: no listener receives an end event for a task before the status of
\* that task has been set to a terminal value at least once: an end taken
\* from the queue was put there after an update with status completed,
\* failed or cancelled, and an end made on a wait that timed out is sent
\* only when completed is true, which is set only after such an update.
C21_EndOnlyAfterTerminal ==
    /\ \A l \in Listeners : \A i \in 1..Len(received[l]) :
          received[l][i].ev.event = "end" =>
              /\ Statuses(ltask[l]) \cap Terminal # {}
              /\ received[l][i].src \in {"queue", "timeout"}
              /\ received[l][i].src = "queue" =>
                    TerminalUpdateAt(ltask[l], received[l][i].ev.seq - 1)
              /\ received[l][i].src = "timeout" =>
                    /\ active_tasks[ltask[l]].completed
                    /\ \E k \in 1..Len(emitted[ltask[l]]) :
                          TerminalUpdateAt(ltask[l], k)
    /\ \A t \in Known :
          active_tasks[t].completed =>
              \E k \in 1..Len(emitted[t]) : TerminalUpdateAt(t, k)

\* of two listeners of a cancelled task, one took from the queue the end
\* that follows the cancelled update and the other was given an end on a
\* wait that timed out
C21_Witness ==
    \E l1, l2 \in Listeners :
        /\ l1 # l2 /\ ltask[l1] = ltask[l2]
        /\ ClosedByEnd(l1)
        /\ received[l1][Len(received[l1])].src = "queue"
        /\ emitted[ltask[l1]][received[l1][Len(received[l1])].ev.seq - 1].status
              = "cancelled"
        /\ EndAfterTimeout(l2)
====
